---- MODULE Spec2Model ----
(***************************************************************************)
(* Job lifecycle and application matching of the Kheticulture marketplace. *)
(*                                                                         *)
(* The two localStorage collections (kheticulture_jobs and                 *)
(* kheticulture_applications) are the shared store.  One MyJobsPage        *)
(* component instance of the farmer is modelled with its React state       *)
(* (jobs, applications, editingJob, showDeleteConfirm); its handlers read  *)
(* that state, not the store.  PostJobPage.handleSubmit, the worker's      *)
(* apply, the owner's accept / reject and a second MyJobsPage session of   *)
(* the same farmer act on the store from other pages or browsing contexts. *)
(***************************************************************************)
EXTENDS Integers, Sequences, FiniteSets, TLC

\* ------------------------------------------------------------- bounds
Workers == {"w1", "w2"}
Farmer == "f1"
MaxJobs == 1
MaxApps == 2
TickHours == 12
MaxClock == 36
\* The latest creation timestamp where job creation is run on its own.
MaxStamp == 3
\* The users who submit the post-job form there.
PostUsers == {[id |-> "f1", userType |-> "farmer"],
              [id |-> "f2", userType |-> "farmer"],
              [id |-> "w1", userType |-> "worker"]}
\* Jobs already stored where a run starts from a store with content.
StoredJobs == 2
\* A post-job form: a valid one, or a valid one with one field changed.
ValidForm == [userType |-> "farmer", blankField |-> FALSE, wage |-> "500",
              duration |-> "1", workers |-> "1"]
GoodForms ==
    {[ValidForm EXCEPT !.wage = w, !.workers = n] :
         w \in {"500", "600"}, n \in {"1", "2"}}
BadForms ==
    {[ValidForm EXCEPT !.userType = "worker"], [ValidForm EXCEPT !.blankField = TRUE]}
    \cup {[ValidForm EXCEPT !.wage = w] : w \in {"", "0", "100001"}}
    \cup {[ValidForm EXCEPT !.duration = d] : d \in {"", "0"}}
    \cup {[ValidForm EXCEPT !.workers = n] : n \in {"", "0"}}
SubmitForms == GoodForms \cup BadForms

\* What the owner leaves in the edit form when saving: wage text, workers
\* text and the status selected.
GoodEdits ==
    [wage : {"500", "600"}, workers : {"1", "2"},
     status : {"open", "filled", "in-progress", "completed"}]
EditForms ==
    GoodEdits \cup {[wage |-> "", workers |-> "1", status |-> "open"],
                    [wage |-> "500", workers |-> "0", status |-> "open"]}

\* ---------------------------------------------------- program constants
Null == 0
NaN == -1
CooldownHours == 24
HourMs == 3600000
MaxWage == 100000
JobStatuses == {"open", "filled", "in-progress", "completed"}

VARIABLES
    storeJobs,          \* localStorage kheticulture_jobs: sequence of Job
    storeApps,          \* localStorage kheticulture_applications: sequence of Application
    jobs,               \* MyJobsPage state: jobs
    applications,       \* MyJobsPage state: applications
    editingJob,         \* MyJobsPage state: editingJob
    showDeleteConfirm,  \* MyJobsPage state: showDeleteConfirm
    nextJobId,          \* ids handed out so far by job creation
    nextAppId,          \* ids handed out so far by apply
    clock,              \* current time, in milliseconds
    last                \* the operation that ran last and how it ended

vars == <<storeJobs, storeApps, jobs, applications, editingJob,
          showDeleteConfirm, nextJobId, nextAppId, clock, last>>

store == <<storeJobs, storeApps>>
page == <<jobs, applications, editingJob, showDeleteConfirm>>

\* ------------------------------------------------------ array helpers
HasJob(js, id) == \E i \in 1..Len(js) : js[i].id = id

\* Array.prototype.find on a job list: the first job with the id.
FindJob(js, id) ==
    js[CHOOSE i \in 1..Len(js) :
           js[i].id = id /\ \A k \in 1..(i - 1) : js[k].id # id]

Elems(s) == {s[i] : i \in 1..Len(s)}

\* parseFloat / parseInt of the texts a form field can hold.
ParseNumber(text) ==
    CASE text = "0" -> 0
      [] text = "1" -> 1
      [] text = "2" -> 2
      [] text = "3" -> 3
      [] text = "500" -> 500
      [] text = "600" -> 600
      [] text = "100001" -> 100001
      [] OTHER -> NaN

IsNaN(n) == n = NaN

\* Number.prototype.toString of the numbers a job field can hold.
NumberText(n) ==
    CASE n = 1 -> "1"
      [] n = 2 -> "2"
      [] n = 3 -> "3"
      [] n = 500 -> "500"
      [] n = 600 -> "600"
      [] OTHER -> ""

\* n <= 0 in JavaScript: false when n is NaN.
LessEqZero(n) == ~IsNaN(n) /\ n <= 0


\* --------------------------------------------------- storage (utils/storage)
\* jobStorage.saveJob: insert, or replace the record with the same id.
SaveJob(js, job) ==
    IF \E i \in 1..Len(js) : js[i].id = job.id
    THEN [i \in 1..Len(js) |-> IF js[i].id = job.id THEN job ELSE js[i]]
    ELSE Append(js, job)

\* jobStorage.updateJob(id, {wage, requiredWorkers, status}): the stored
\* record with the three fields replaced, written as one whole record.
UpdateJob(js, id, newWage, newRequiredWorkers, newStatus) ==
    [i \in 1..Len(js) |->
        IF js[i].id = id
        THEN [js[i] EXCEPT !.wage = newWage,
                           !.requiredWorkers = newRequiredWorkers,
                           !.status = newStatus]
        ELSE js[i]]

\* ------------------------------------- JobStatusManager (utils/jobStatusManager)
DerivedStatus(job) ==
    IF Cardinality(job.acceptedWorkerIds) >= job.requiredWorkers
    THEN "filled" ELSE "open"

\* Mutant: the pass derives the status of an in-progress job as well.
RecomputeStatus_DerivesInProgress(job) ==
    IF job.status = "completed" THEN job
    ELSE [job EXCEPT !.status = DerivedStatus(job)]

RecomputeStatus(job) ==
    IF job.status = "completed" THEN job
    ELSE IF job.status = "in-progress" THEN job
    ELSE [job EXCEPT !.status = DerivedStatus(job)]

\* JobStatusManager.updateAllJobStatuses: one pass over every stored job.
UpdateAllJobStatuses(js) == [i \in 1..Len(js) |-> RecomputeStatus(js[i])]

\* JobStatusManager.checkStatusAfterWorkerAccepted(jobId).
CheckStatusAfterWorkerAccepted(js, id) ==
    [i \in 1..Len(js) |-> IF js[i].id = id THEN RecomputeStatus(js[i]) ELSE js[i]]

\* ------------------------------------------- WageValidator (utils/wageValidation)
ValidateWageChange(currentWage, newWage, hasAnyApplications, acceptedCount) ==
    [canModify |-> (~hasAnyApplications) \/ newWage = currentWage]

\* ------------------------------------------------ MyJobsPage: reads of state
getJobApplications(apps, jobId) ==
    LET K(a) == a.jobId = jobId IN SelectSeq(apps, K)

hasApplications(apps, jobId) == Len(getJobApplications(apps, jobId)) > 0

getAcceptedApplicationsCount(apps, jobId) ==
    LET K(a) == a.jobId = jobId /\ a.status = "accepted" IN Len(SelectSeq(apps, K))

\* loadData, farmer branch: the jobs the page keeps after the recompute pass.
FarmerJobs(js, userId) ==
    LET K(j) == j.farmerId = userId IN SelectSeq(js, K)


Did(op, jobId, result) == [op |-> op, job |-> jobId, result |-> result]

\* ------------------------------------------------------------- Init
Init ==
    /\ storeJobs = <<>>
    /\ storeApps = <<>>
    /\ jobs = <<>>
    /\ applications = <<>>
    /\ editingJob = Null
    /\ showDeleteConfirm = Null
    /\ nextJobId = 0
    /\ nextAppId = 0
    /\ clock = 0
    /\ last = Did("init", Null, "ok")

\* ------------------------------------------------ MyJobsPage: handlers
\* Mutant: loadData reads the jobs without the recompute pass.
Mount_NoRecompute ==
    /\ jobs' = FarmerJobs(storeJobs, Farmer)
    /\ applications' = <<>>
    /\ editingJob' = Null
    /\ showDeleteConfirm' = Null
    /\ last' = Did("loadData", Null, "ok")
    /\ UNCHANGED <<store, nextJobId, nextAppId, clock>>

\* useEffect on mount: a fresh component (initial state) runs loadData as
\* the farmer: the recompute pass, then setJobs of the farmer's jobs.
Mount ==
    LET updatedJobs == UpdateAllJobStatuses(storeJobs) IN
    /\ storeJobs' = updatedJobs
    /\ jobs' = FarmerJobs(updatedJobs, Farmer)
    /\ applications' = <<>>
    /\ editingJob' = Null
    /\ showDeleteConfirm' = Null
    /\ last' = Did("loadData", Null, "ok")
    /\ UNCHANGED <<storeApps, nextJobId, nextAppId, clock>>

\* handleEditJob: the job is looked up in the page's jobs state.
HandleEditJob(jobId) ==
    /\ showDeleteConfirm = Null
    /\ HasJob(jobs, jobId)
    /\ LET job == FindJob(jobs, jobId) IN
         IF job.status = "completed"
         THEN /\ last' = Did("handleEditJob", jobId, "completed")
              /\ UNCHANGED editingJob
         ELSE /\ last' = Did("handleEditJob", jobId, "ok")
              /\ editingJob' = jobId
    /\ UNCHANGED <<store, jobs, applications, showDeleteConfirm,
                   nextJobId, nextAppId, clock>>

\* Mutant: the inline check refuses every save once an application exists.
InlineWageLocked_AnyApplication(currentWage, newWage, hasAnyApplications) ==
    hasAnyApplications

\* Mutant: the inline check refuses only a raise of the wage.
InlineWageLocked_OnlyRaise(currentWage, newWage, hasAnyApplications) ==
    hasAnyApplications /\ newWage > currentWage

\* handleSaveEdit, the inline wage check: the save is refused.
InlineWageLocked(currentWage, newWage, hasAnyApplications) ==
    hasAnyApplications /\ newWage # currentWage

\* handleSaveEdit, the check on what WageValidator returned: the save is
\* refused.
ValidatorWageLocked(currentWage, newWage, hasAnyApplications, acceptedCount) ==
    /\ ~ValidateWageChange(currentWage, newWage,
                           hasAnyApplications, acceptedCount).canModify
    /\ newWage # currentWage

\* handleSaveEdit, the validations between the completed check and the
\* write: the first check that rejects the save, or "saved".
SaveEditCheck(job, apps, wageText, workersText) ==
    LET jobApplications == getJobApplications(apps, job.id)
        hasAnyApplications == Len(jobApplications) > 0
        acceptedCount == getAcceptedApplicationsCount(apps, job.id)
        newWage == ParseNumber(wageText)
        newRequiredWorkers == ParseNumber(workersText)
    IN  IF IsNaN(newWage) \/ newWage <= 0 THEN "invalid_wage"
        ELSE IF InlineWageLocked(job.wage, newWage, hasAnyApplications)
             THEN "wage_locked"
        ELSE IF IsNaN(newRequiredWorkers) \/ newRequiredWorkers <= 0
             THEN "invalid_workers"
        ELSE IF ValidatorWageLocked(job.wage, newWage,
                                    hasAnyApplications, acceptedCount)
             THEN "wage_locked"
        ELSE IF newRequiredWorkers < acceptedCount THEN "below_accepted"
        ELSE IF hasAnyApplications /\ newRequiredWorkers < job.requiredWorkers
             THEN "shrink_with_applications"
        ELSE "saved"

\* Mutant: the save writes the job and neither checks the status nor reloads.
SaveEditWrite_WriteOnly(js, id, wageText, workersText, status) ==
    UpdateJob(js, id, ParseNumber(wageText), ParseNumber(workersText), status)

\* Mutant: the write gives the three fields to every stored job.
SaveEditWrite_EveryJob(js, id, wageText, workersText, status) ==
    UpdateAllJobStatuses(
        [i \in 1..Len(js) |->
            [js[i] EXCEPT !.wage = ParseNumber(wageText),
                          !.requiredWorkers = ParseNumber(workersText),
                          !.status = status]])

\* handleSaveEdit, the write and what follows it: jobStorage.updateJob,
\* checkStatusAfterWorkerAccepted, then loadData's recompute pass.
SaveEditWrite(js, id, wageText, workersText, status) ==
    UpdateAllJobStatuses(
        CheckStatusAfterWorkerAccepted(
            UpdateJob(js, id, ParseNumber(wageText), ParseNumber(workersText), status),
            id))

\* What a handleSaveEdit that found its job leaves to be seen: the outcome,
\* the editData it read and the job record it read from the jobs state.
SaveOutcome(job, wageText, workersText, status, result) ==
    [op |-> "handleSaveEdit", job |-> job.id, result |-> result,
     editData |-> [wage |-> wageText, requiredWorkers |-> workersText,
                   status |-> status],
     read |-> job]

\* The edit form, with its Save and Cancel buttons, is rendered inside the
\* card of the job being edited.
EditFormShown == editingJob # Null /\ HasJob(jobs, editingJob)

\* Mutant: the job is written before the checks are made.
HandleSaveEdit_WritesFirst(wageText, workersText, status) ==
    /\ showDeleteConfirm = Null
    /\ EditFormShown
    /\ LET job == FindJob(jobs, editingJob)
           check == IF job.status = "completed" THEN "completed"
                    ELSE SaveEditCheck(job, applications, wageText, workersText)
           written == UpdateJob(storeJobs, editingJob, ParseNumber(wageText),
                                ParseNumber(workersText), status)
       IN  /\ last' = SaveOutcome(job, wageText, workersText, status, check)
           /\ storeJobs' = written
           /\ jobs' = IF check = "saved" THEN FarmerJobs(written, Farmer) ELSE jobs
           /\ editingJob' = IF check \in {"saved", "completed"} THEN Null
                             ELSE editingJob
    /\ UNCHANGED <<storeApps, applications, showDeleteConfirm,
                   nextJobId, nextAppId, clock>>

HandleSaveEdit(wageText, workersText, status) ==
    /\ showDeleteConfirm = Null
    /\ EditFormShown
    /\ IF ~HasJob(jobs, editingJob)
       THEN /\ last' = Did("handleSaveEdit", editingJob, "no_job")
            /\ UNCHANGED <<store, jobs, editingJob>>
       ELSE LET job == FindJob(jobs, editingJob)
                check == IF job.status = "completed" THEN "completed"
                         ELSE SaveEditCheck(job, applications, wageText, workersText)
            IN  /\ last' = SaveOutcome(job, wageText, workersText, status, check)
                /\ IF check = "saved"
                   THEN LET written == SaveEditWrite(storeJobs, editingJob,
                                                     wageText, workersText, status)
                        IN  /\ storeJobs' = written
                            /\ jobs' = FarmerJobs(written, Farmer)
                            /\ editingJob' = Null
                            /\ UNCHANGED storeApps
                   ELSE /\ editingJob' = IF check = "completed" THEN Null ELSE editingJob
                        /\ UNCHANGED <<store, jobs>>
    /\ UNCHANGED <<applications, showDeleteConfirm, nextJobId, nextAppId, clock>>

HandleCancelEdit ==
    /\ showDeleteConfirm = Null
    /\ EditFormShown
    /\ editingJob' = Null
    /\ last' = Did("handleCancelEdit", editingJob, "ok")
    /\ UNCHANGED <<store, jobs, applications, showDeleteConfirm,
                   nextJobId, nextAppId, clock>>

\* handleDeleteJob: opens the confirmation unless the page's copy of the
\* job is completed.
HandleDeleteJob(jobId) ==
    /\ showDeleteConfirm = Null
    /\ HasJob(jobs, jobId)
    /\ LET job == FindJob(jobs, jobId) IN
         IF job.status = "completed"
         THEN /\ last' = Did("handleDeleteJob", jobId, "completed")
              /\ UNCHANGED showDeleteConfirm
         ELSE /\ last' = Did("handleDeleteJob", jobId, "ok")
              /\ showDeleteConfirm' = jobId
    /\ UNCHANGED <<store, jobs, applications, editingJob,
                   nextJobId, nextAppId, clock>>

\* The Cancel button of the confirmation.
CancelDelete ==
    /\ showDeleteConfirm # Null
    /\ showDeleteConfirm' = Null
    /\ last' = Did("cancelDelete", showDeleteConfirm, "ok")
    /\ UNCHANGED <<store, jobs, applications, editingJob,
                   nextJobId, nextAppId, clock>>

\* confirmDeleteJob, the filter of the jobs read from the store.
WithoutJob(js, jobId) == LET K(j) == j.id # jobId IN SelectSeq(js, K)

\* Mutant: the applications are filtered by their own id, not by jobId.
WithoutJobApplications_ById(apps, jobId) ==
    LET K(a) == a.id # jobId IN SelectSeq(apps, K)

\* confirmDeleteJob, the filter of the applications read from the store.
WithoutJobApplications(apps, jobId) ==
    LET K(a) == a.jobId # jobId IN SelectSeq(apps, K)

\* confirmDeleteJob: both collections are read from the store, filtered
\* and written back; then loadData.
ConfirmDeleteJob ==
    /\ showDeleteConfirm # Null
    /\ LET updatedJobs == WithoutJob(storeJobs, showDeleteConfirm)
           updatedApplications == WithoutJobApplications(storeApps, showDeleteConfirm)
           reloaded == UpdateAllJobStatuses(updatedJobs)
       IN  /\ storeJobs' = reloaded
           /\ storeApps' = updatedApplications
           /\ jobs' = FarmerJobs(reloaded, Farmer)
    /\ showDeleteConfirm' = Null
    /\ last' = Did("confirmDeleteJob", showDeleteConfirm, "ok")
    /\ UNCHANGED <<applications, editingJob, nextJobId, nextAppId, clock>>


\* --------------------------------------- a second MyJobsPage of the farmer
\* Another browsing context of the same farmer: it mounts (loadData on the
\* store as it is now), opens the edit form of a job (handleEditJob fills it
\* from the job), selects a status and saves (handleSaveEdit).  Its
\* applications state is the initial empty list.
PeerSaveEdit(jobId, status) ==
    LET updatedJobs == UpdateAllJobStatuses(storeJobs)
        peerJobs == FarmerJobs(updatedJobs, Farmer)
    IN  /\ HasJob(peerJobs, jobId)
        /\ LET job == FindJob(peerJobs, jobId)
               wageText == NumberText(job.wage)
               workersText == NumberText(job.requiredWorkers)
           IN  /\ job.status # "completed"
               /\ SaveEditCheck(job, <<>>, wageText, workersText) = "saved"
               /\ storeJobs' = SaveEditWrite(updatedJobs, jobId, wageText,
                                             workersText, status)
        /\ last' = Did("peerSaveEdit", jobId, "saved")
        /\ UNCHANGED <<storeApps, page, nextJobId, nextAppId, clock>>

\* The other browsing context deletes a job: it mounts, handleDeleteJob
\* opens the confirmation (the job it loaded is not completed) and
\* confirmDeleteJob runs.
PeerDeleteJob(jobId) ==
    LET updatedJobs == UpdateAllJobStatuses(storeJobs)
        peerJobs == FarmerJobs(updatedJobs, Farmer)
    IN  /\ HasJob(peerJobs, jobId)
        /\ FindJob(peerJobs, jobId).status # "completed"
        /\ storeJobs' = UpdateAllJobStatuses(WithoutJob(updatedJobs, jobId))
        /\ storeApps' = WithoutJobApplications(storeApps, jobId)
        /\ last' = Did("peerDeleteJob", jobId, "ok")
        /\ UNCHANGED <<page, nextJobId, nextAppId, clock>>

\* ------------------------------------------------ PostJobPage.handleSubmit
\* Mutant: the submission does not validate the number of workers.
SubmitCheck_NoWorkersCheck(userType, blankField, wageText, durationText, workersText) ==
    IF userType # "farmer" THEN "not_farmer"
    ELSE IF blankField THEN "blank_field"
    ELSE IF wageText = "" \/ LessEqZero(ParseNumber(wageText)) THEN "invalid_wage"
    ELSE IF ParseNumber(wageText) > MaxWage THEN "wage_too_high"
    ELSE IF durationText = "" \/ LessEqZero(ParseNumber(durationText))
         THEN "invalid_duration"
    ELSE "saved"

\* The validation that rejects the submission, or "saved".
SubmitCheck(userType, blankField, wageText, durationText, workersText) ==
    IF userType # "farmer" THEN "not_farmer"
    ELSE IF blankField THEN "blank_field"
    ELSE IF wageText = "" \/ LessEqZero(ParseNumber(wageText)) THEN "invalid_wage"
    ELSE IF ParseNumber(wageText) > MaxWage THEN "wage_too_high"
    ELSE IF durationText = "" \/ LessEqZero(ParseNumber(durationText))
         THEN "invalid_duration"
    ELSE IF workersText = "" \/ LessEqZero(ParseNumber(workersText))
         THEN "invalid_workers"
    ELSE "saved"

NewJob(id, userId, wageText, workersText) ==
    [id |-> id,
     farmerId |-> userId,
     wage |-> ParseNumber(wageText),
     requiredWorkers |-> ParseNumber(workersText),
     acceptedWorkerIds |-> {},
     status |-> "open"]

HandleSubmit(userType, blankField, wageText, durationText, workersText) ==
    /\ SubmitCheck(userType, blankField, wageText, durationText, workersText) = "saved"
    /\ nextJobId < MaxJobs
    /\ storeJobs' = SaveJob(storeJobs,
                            NewJob(nextJobId + 1, Farmer, wageText, workersText))
    /\ nextJobId' = nextJobId + 1
    /\ last' = Did("handleSubmit", nextJobId + 1, "saved")
    /\ UNCHANGED <<storeApps, page, nextAppId, clock>>

\* What a handleSubmit leaves to be seen: the outcome (the error set, or
\* saved), the user and the formData it read.
SubmitOutcome(user, blankField, wageText, durationText, workersText, id, result) ==
    [op |-> "handleSubmit", job |-> id, result |-> result, user |-> user,
     formData |-> [blankField |-> blankField, wage |-> wageText,
                   duration |-> durationText, requiredWorkers |-> workersText]]

\* handleSubmit by any user at creation timestamp now (Date.now() is the
\* job id): a submission that fails a validation sets the error and
\* returns; otherwise the job is built and jobStorage.saveJob stores it.
\* nextJobId is the latest timestamp a creation has read.
SubmitAt(user, blankField, wageText, durationText, workersText, now) ==
    LET check == SubmitCheck(user.userType, blankField, wageText,
                             durationText, workersText)
    IN  /\ now >= nextJobId
        /\ IF check = "saved"
           THEN /\ storeJobs' = SaveJob(storeJobs,
                                        NewJob(now, user.id, wageText, workersText))
                /\ nextJobId' = now
                /\ last' = SubmitOutcome(user, blankField, wageText, durationText,
                                         workersText, now, check)
           ELSE /\ last' = SubmitOutcome(user, blankField, wageText, durationText,
                                         workersText, Null, check)
                /\ UNCHANGED <<storeJobs, nextJobId>>
        /\ UNCHANGED <<storeApps, page, nextAppId, clock>>

\* ----------------------------------------------------- JobCard (part_000)
\* Mutant: the button ignores the applicationStatus it is given.
canApplyToJob_IgnoresStatus(canApply, applicationStatus, job) ==
    IF ~canApply THEN FALSE
    ELSE job.status = "open"

\* Mutant: the button ignores the status of the job.
canApplyToJob_IgnoresJobStatus(canApply, applicationStatus, job) ==
    IF ~canApply \/ applicationStatus # "" THEN FALSE
    ELSE TRUE

\* canApplyToJob: whether the apply button is enabled.  applicationStatus
\* is "" (null) or the status text the page passes in.
canApplyToJob(canApply, applicationStatus, job) ==
    IF ~canApply \/ applicationStatus # "" THEN FALSE
    ELSE job.status = "open"

\* --------------------------------------------- apply, accept, reject
PairApplications(apps, jobId, workerId) ==
    LET K(a) == a.jobId = jobId /\ a.workerId = workerId IN SelectSeq(apps, K)

\* Mutant: the cooldown is over only after more than 24 hours.
CooldownElapsed_Strict(app, now) ==
    now - app.rejectedAt > CooldownHours * HourMs

CooldownElapsed(app, now) == now - app.rejectedAt >= CooldownHours * HourMs

\* The applicationStatus the job list passes to JobCard for a worker: the
\* status of the worker's application that still counts for the job ("" when
\* there is none, or when every one is a rejection whose cooldown is over).
ApplicationStatusProp(apps, jobId, workerId, now) ==
    LET mine == Elems(PairApplications(apps, jobId, workerId)) IN
    IF \E a \in mine : a.status = "accepted" THEN "accepted"
    ELSE IF \E a \in mine : a.status = "pending" THEN "pending"
    ELSE IF \E a \in mine : a.status = "rejected" /\ ~CooldownElapsed(a, now)
         THEN "rejected"
    ELSE ""

\* The canApply the job list passes to JobCard: a free position is left.
CanApplyProp(job) == Cardinality(job.acceptedWorkerIds) < job.requiredWorkers

NewApplication(id, jobId, workerId) ==
    [id |-> id, jobId |-> jobId, workerId |-> workerId, status |-> "pending"]

\* Whether the apply button of the job is enabled for the worker.
ApplyAdmitted(js, apps, workerId, jobId, now) ==
    /\ HasJob(js, jobId)
    /\ canApplyToJob(CanApplyProp(FindJob(js, jobId)),
                     ApplicationStatusProp(apps, jobId, workerId, now),
                     FindJob(js, jobId))

\* Mutant: a reapply turns the worker's rejected row into the pending one.
Apply_ReusesRow(workerId, jobId) ==
    /\ ApplyAdmitted(storeJobs, storeApps, workerId, jobId, clock)
    /\ nextAppId < MaxApps
    /\ LET mine == PairApplications(storeApps, jobId, workerId) IN
         storeApps' =
             IF Len(mine) > 0
             THEN [i \in 1..Len(storeApps) |->
                      IF storeApps[i].id = mine[1].id
                      THEN NewApplication(mine[1].id, jobId, workerId)
                      ELSE storeApps[i]]
             ELSE Append(storeApps, NewApplication(nextAppId + 1, jobId, workerId))
    /\ nextAppId' = nextAppId + 1
    /\ last' = Did("apply", jobId, "ok")
    /\ UNCHANGED <<storeJobs, page, nextJobId, clock>>

Apply(workerId, jobId) ==
    /\ ApplyAdmitted(storeJobs, storeApps, workerId, jobId, clock)
    /\ nextAppId < MaxApps
    /\ storeApps' = Append(storeApps, NewApplication(nextAppId + 1, jobId, workerId))
    /\ nextAppId' = nextAppId + 1
    /\ last' = Did("apply", jobId, "ok")
    /\ UNCHANGED <<storeJobs, page, nextJobId, clock>>

HasApp(apps, appId) == \E i \in 1..Len(apps) : apps[i].id = appId

FindApp(apps, appId) == apps[CHOOSE i \in 1..Len(apps) : apps[i].id = appId]

SetApp(apps, appId, app) ==
    [i \in 1..Len(apps) |-> IF apps[i].id = appId THEN app ELSE apps[i]]

AddAcceptedWorker(js, jobId, workerId) ==
    [i \in 1..Len(js) |->
        IF js[i].id = jobId
        THEN [js[i] EXCEPT !.acceptedWorkerIds = @ \cup {workerId}]
        ELSE js[i]]

\* Mutant: accept does not look at the positions left.
AcceptAllowed_IgnoresCapacity(app, js) ==
    /\ app.status = "pending"
    /\ HasJob(js, app.jobId)
    /\ FindJob(js, app.jobId).status # "completed"

AcceptAllowed(app, js) ==
    /\ app.status = "pending"
    /\ HasJob(js, app.jobId)
    /\ FindJob(js, app.jobId).status # "completed"
    /\ Cardinality(FindJob(js, app.jobId).acceptedWorkerIds)
           < FindJob(js, app.jobId).requiredWorkers

Accept(appId) ==
    /\ HasApp(storeApps, appId)
    /\ LET app == FindApp(storeApps, appId) IN
         /\ AcceptAllowed(app, storeJobs)
         /\ storeApps' = SetApp(storeApps, appId, [app EXCEPT !.status = "accepted"])
         /\ storeJobs' = CheckStatusAfterWorkerAccepted(
                             AddAcceptedWorker(storeJobs, app.jobId, app.workerId),
                             app.jobId)
         /\ last' = Did("accept", app.jobId, "ok")
    /\ UNCHANGED <<page, nextJobId, nextAppId, clock>>

RejectedApplication(app, now) ==
    [id |-> app.id, jobId |-> app.jobId, workerId |-> app.workerId,
     status |-> "rejected", rejectedAt |-> now]

Reject(appId) ==
    /\ HasApp(storeApps, appId)
    /\ LET app == FindApp(storeApps, appId) IN
         /\ app.status = "pending"
         /\ storeApps' = SetApp(storeApps, appId, RejectedApplication(app, clock))
         /\ storeJobs' = CheckStatusAfterWorkerAccepted(storeJobs, app.jobId)
         /\ last' = Did("reject", app.jobId, "ok")
    /\ UNCHANGED <<page, nextJobId, nextAppId, clock>>

\* ------------------------------------------------------------- time
Tick ==
    /\ clock + TickHours * HourMs <= MaxClock * HourMs
    /\ clock' = clock + TickHours * HourMs
    /\ last' = Did("tick", Null, "ok")
    /\ UNCHANGED <<store, page, nextJobId, nextAppId>>

\* ------------------------------------------------------------- Next
Next ==
    \/ Mount
    \/ \E jobId \in 1..nextJobId : HandleEditJob(jobId)
    \/ \E e \in EditForms : HandleSaveEdit(e.wage, e.workers, e.status)
    \/ HandleCancelEdit
    \/ \E jobId \in 1..nextJobId : HandleDeleteJob(jobId)
    \/ CancelDelete
    \/ ConfirmDeleteJob
    \/ \E jobId \in 1..nextJobId, st \in JobStatuses : PeerSaveEdit(jobId, st)
    \/ \E jobId \in 1..nextJobId : PeerDeleteJob(jobId)
    \/ \E f \in SubmitForms :
           HandleSubmit(f.userType, f.blankField, f.wage, f.duration, f.workers)
    \/ \E w \in Workers, jobId \in 1..nextJobId : Apply(w, jobId)
    \/ \E appId \in 1..nextAppId : Accept(appId)
    \/ \E appId \in 1..nextAppId : Reject(appId)
    \/ Tick

Spec == Init /\ [][Next]_vars


\* ------------------------------------------- runs from a store with content
\* Deletion: the farmer has posted StoredJobs jobs (handleSubmit of a valid
\* form each); workers apply, the owner accepts, rejects and deletes.
InitDelete ==
    /\ storeJobs \in {[i \in 1..StoredJobs |-> NewJob(i, Farmer, "500", n[i])] :
                          n \in [1..StoredJobs -> {"1", "2"}]}
    /\ storeApps = <<>>
    /\ jobs = <<>>
    /\ applications = <<>>
    /\ editingJob = Null
    /\ showDeleteConfirm = Null
    /\ nextJobId = StoredJobs
    /\ nextAppId = 0
    /\ clock = 0
    /\ last = Did("init", Null, "ok")

NextDelete ==
    \/ Mount
    \/ \E jobId \in 1..nextJobId : HandleDeleteJob(jobId)
    \/ CancelDelete
    \/ ConfirmDeleteJob
    \/ \E jobId \in 1..nextJobId, st \in {"in-progress", "completed"} :
           PeerSaveEdit(jobId, st)
    \/ \E w \in Workers, jobId \in 1..nextJobId : Apply(w, jobId)
    \/ \E appId \in 1..nextAppId : Accept(appId)
    \/ \E appId \in 1..nextAppId : Reject(appId)

SpecDelete == InitDelete /\ [][NextDelete]_vars

\* The recompute pass on any store content, stale or not: job records whose
\* status need not agree with their accepted count.
AnyJob(id) ==
    [id : {id}, farmerId : {Farmer}, wage : {500}, requiredWorkers : {1, 2},
     acceptedWorkerIds : SUBSET Workers, status : JobStatuses]

InitRecompute ==
    /\ \E n \in 1..StoredJobs :
          storeJobs \in {s \in [1..n -> UNION {AnyJob(i) : i \in 1..n}] :
                             \A i \in 1..n : s[i].id = i}
    /\ storeApps = <<>>
    /\ jobs = <<>>
    /\ applications = <<>>
    /\ editingJob = Null
    /\ showDeleteConfirm = Null
    /\ nextJobId = StoredJobs
    /\ nextAppId = 0
    /\ clock = 0
    /\ last = Did("init", Null, "ok")

NextRecompute == Mount

SpecRecompute == InitRecompute /\ [][NextRecompute]_vars

\* Editing with several jobs stored: the owner edits one of StoredJobs
\* posted jobs while workers apply, the owner accepts, and the owner's other
\* session closes jobs.
NextEdit ==
    \/ Mount
    \/ \E jobId \in 1..nextJobId : HandleEditJob(jobId)
    \/ \E e \in GoodEdits : HandleSaveEdit(e.wage, e.workers, e.status)
    \/ \E jobId \in 1..nextJobId : PeerSaveEdit(jobId, "completed")
    \/ \E w \in Workers, jobId \in 1..nextJobId : Apply(w, jobId)
    \/ \E appId \in 1..nextAppId : Accept(appId)

SpecEdit == InitDelete /\ [][NextEdit]_vars

\* Job creation on its own: farmers and a worker submit the post-job form,
\* valid or not, each at the millisecond of the creation before it or at a
\* later one.
NextPost ==
    \E user \in PostUsers, f \in SubmitForms, now \in 1..MaxStamp :
        SubmitAt(user, f.blankField, f.wage, f.duration, f.workers, now)

SpecPost == Init /\ [][NextPost]_vars

\* ------------------------------------------------------- properties
JobIdsOf(js) == {js[i].id : i \in 1..Len(js)}

AcceptedCount(job) == Cardinality(job.acceptedWorkerIds)

\* C1 (I2): in every reachable state every stored job has no more accepted
\* workers than requiredWorkers.
C1_AcceptedWithinRequired ==
    \A job \in Elems(storeJobs) : AcceptedCount(job) <= job.requiredWorkers

\* C2 (I1): a stored job whose status is completed is the same record in
\* the next state, whatever step is taken, as long as it is stored.
C2_CompletedIsFrozen ==
    [][\A job \in Elems(storeJobs) :
          (job.status = "completed" /\ HasJob(storeJobs', job.id))
              => FindJob(storeJobs', job.id) = job]_vars

\* C3 (I4, wage lock): a job for which an application of any status is
\* stored keeps its stored wage in the next state, whatever step is taken.
C3_WageLocked ==
    [][\A job \in Elems(storeJobs) :
          (hasApplications(storeApps, job.id) /\ HasJob(storeJobs', job.id))
              => FindJob(storeJobs', job.id).wage = job.wage]_vars

ActiveApplications(apps, jobId, workerId) ==
    LET K(a) == a.jobId = jobId /\ a.workerId = workerId
                /\ a.status \in {"pending", "accepted"}
    IN  SelectSeq(apps, K)

\* C4 (I5): for every (job, worker) pair at most one application is pending
\* or accepted, and a worker who holds one is not admitted to apply again.
C4_OneActiveApplication ==
    \A jobId \in JobIdsOf(storeJobs) \cup {a.jobId : a \in Elems(storeApps)},
       w \in Workers :
        /\ Len(ActiveApplications(storeApps, jobId, w)) <= 1
        /\ Len(ActiveApplications(storeApps, jobId, w)) = 1
               => ~ApplyAdmitted(storeJobs, storeApps, w, jobId, clock)

\* C4 witness: a worker reapplied after a rejection: the rejected row and
\* the new pending row of the same pair are both stored.
C4_Witness ==
    \E a \in Elems(storeApps), b \in Elems(storeApps) :
        /\ a.jobId = b.jobId /\ a.workerId = b.workerId
        /\ a.status = "rejected" /\ b.status = "pending"
        /\ last.op = "apply"

\* C5: a stored job whose status is completed is still stored in the next
\* state, and so is every application of it, whatever step is taken.
C5_CompletedNeverRemoved ==
    [][\A job \in Elems(storeJobs) :
          job.status = "completed"
              => /\ HasJob(storeJobs', job.id)
                 /\ \A a \in Elems(getJobApplications(storeApps, job.id)) :
                        HasApp(storeApps', a.id)]_vars

\* C7 (I3): every stored job that is neither completed nor in-progress is
\* filled exactly when its accepted count equals requiredWorkers, and open
\* otherwise.
C7_StatusMatchesCount ==
    \A job \in Elems(storeJobs) :
        job.status \notin {"completed", "in-progress"}
            => /\ (job.status = "filled") <=> (AcceptedCount(job) = job.requiredWorkers)
               /\ job.status # "filled" => job.status = "open"

\* C8: when an accept, a reject or a saved owner edit has finished, the
\* job it touched, unless completed or in-progress, is filled when its
\* accepted count has reached requiredWorkers and open otherwise.
C8_StatusAfterOperation ==
    (/\ last.op \in {"accept", "reject", "handleSaveEdit", "peerSaveEdit"}
     /\ last.result \in {"ok", "saved"}
     /\ HasJob(storeJobs, last.job))
        => LET job == FindJob(storeJobs, last.job) IN
           job.status \notin {"completed", "in-progress"}
               => job.status = (IF AcceptedCount(job) >= job.requiredWorkers
                                THEN "filled" ELSE "open")

\* C8 witness: an owner edit was saved on a job with an accepted worker
\* and the job ended open because requiredWorkers is above the count.
C8_Witness ==
    /\ last.op = "handleSaveEdit" /\ last.result = "saved"
    /\ HasJob(storeJobs, last.job)
    /\ LET job == FindJob(storeJobs, last.job) IN
         /\ AcceptedCount(job) >= 1
         /\ AcceptedCount(job) < job.requiredWorkers
         /\ job.status = "open"


\* C6: when confirmDeleteJob has deleted a job that was stored and not
\* completed, the store holds neither the job nor an application of it, and
\* every other job and every application of another job is unchanged.
C6_DeleteCascades ==
    [][(/\ last'.op = "confirmDeleteJob"
        /\ showDeleteConfirm # Null /\ showDeleteConfirm' = Null
        /\ HasJob(storeJobs, showDeleteConfirm)
        /\ FindJob(storeJobs, showDeleteConfirm).status # "completed")
          => /\ ~HasJob(storeJobs', showDeleteConfirm)
             /\ \A a \in Elems(storeApps') : a.jobId # showDeleteConfirm
             /\ \A job \in Elems(storeJobs) :
                   job.id # showDeleteConfirm => job \in Elems(storeJobs')
             /\ \A a \in Elems(storeApps) :
                   a.jobId # showDeleteConfirm => a \in Elems(storeApps')
             /\ Len(storeJobs') = Len(storeJobs) - 1
             /\ Len(storeApps')
                    = Len(storeApps) - Len(getJobApplications(storeApps, showDeleteConfirm))
       ]_vars

\* C6 witness: a deletion has finished; the deleted job had an application,
\* and the other job and its application are still stored.
C6_Witness ==
    /\ last.op = "confirmDeleteJob"
    /\ nextAppId = 2
    /\ Len(storeApps) = 1
    /\ Len(storeJobs) = StoredJobs - 1
    /\ HasJob(storeJobs, storeApps[1].jobId)
    /\ ~HasJob(storeJobs, last.job)

\* C9: the recompute pass is idempotent: on every store content a second
\* pass returns what the first returned, and after a loadData a further
\* pass leaves every stored job record as it is.
C9_RecomputeIdempotent ==
    /\ UpdateAllJobStatuses(UpdateAllJobStatuses(storeJobs))
           = UpdateAllJobStatuses(storeJobs)
    /\ last.op = "loadData" => UpdateAllJobStatuses(storeJobs) = storeJobs

\* C9 witness: loadData has run on a store that holds a job with more
\* accepted workers than requiredWorkers and a job that is in-progress.
C9_Witness ==
    /\ last.op = "loadData"
    /\ \E job \in Elems(storeJobs) : AcceptedCount(job) > job.requiredWorkers
    /\ \E job \in Elems(storeJobs) : job.status = "in-progress"

\* C10: a recompute pass leaves every completed and every in-progress job
\* as it is, and on every job it changes no field other than status.
C10_RecomputeFrame ==
    [][last'.op = "loadData"
          => /\ Len(storeJobs') = Len(storeJobs)
             /\ \A i \in 1..Len(storeJobs) :
                   /\ storeJobs'[i] = [storeJobs[i] EXCEPT !.status = storeJobs'[i].status]
                   /\ storeJobs[i].status \in {"completed", "in-progress"}
                          => storeJobs'[i] = storeJobs[i]]_vars

\* C10 witness: loadData has run and the store holds an in-progress job
\* whose accepted count has reached requiredWorkers and a completed job
\* whose accepted count has not.
C10_Witness ==
    /\ last.op = "loadData"
    /\ \E job \in Elems(storeJobs) :
          job.status = "in-progress" /\ AcceptedCount(job) >= job.requiredWorkers
    /\ \E job \in Elems(storeJobs) :
          job.status = "completed" /\ AcceptedCount(job) < job.requiredWorkers

\* ------------------------------------------------ properties of the edit
\* The last step was a handleSaveEdit that found its job.
SaveEditRan == last.op = "handleSaveEdit" /\ "read" \in DOMAIN last

WageFailures == {"invalid_wage", "wage_locked"}

\* C11 (wage idempotence): a save whose wage is the job's current wage is
\* never refused for its wage, whatever applications the job has; when the
\* workers field is unchanged too and the job is not completed, it is saved.
C11_SameWageNeverFails ==
    /\ \A job \in Elems(jobs), e \in EditForms :
          ParseNumber(e.wage) = job.wage
              => /\ SaveEditCheck(job, applications, e.wage, e.workers)
                        \notin WageFailures
                 /\ SaveEditCheck(job, storeApps, e.wage, e.workers)
                        \notin WageFailures
    /\ (SaveEditRan /\ ParseNumber(last.editData.wage) = last.read.wage)
          => /\ last.result \notin WageFailures
             /\ (/\ ParseNumber(last.editData.requiredWorkers)
                        = last.read.requiredWorkers
                 /\ last.read.status # "completed") => last.result = "saved"

\* C11 witness: a save with the current wage was accepted for a job that
\* has an application stored.
C11_Witness ==
    /\ SaveEditRan /\ last.result = "saved"
    /\ ParseNumber(last.editData.wage) = last.read.wage
    /\ hasApplications(storeApps, last.job)

\* The decision of section 4.1 for an application count.
WageChangeAllowed(currentWage, proposedWage, applicationCount) ==
    applicationCount = 0 \/ proposedWage = currentWage

\* C12: for every current wage, proposed wage above 0 and application
\* count, the inline check refuses exactly when the count is above 0 and
\* the wage differs, the check on WageValidator's answer decides the same,
\* and a save is refused as wage-locked only on that decision.
C12_WageGateDecision ==
    /\ \A currentWage \in {500, 600}, e \in GoodEdits, apps \in {applications, storeApps},
          jobId \in 1..nextJobId :
          LET proposedWage == ParseNumber(e.wage)
              count == Len(getJobApplications(apps, jobId))
              acceptedCount == getAcceptedApplicationsCount(apps, jobId)
          IN  /\ InlineWageLocked(currentWage, proposedWage, count > 0)
                    <=> ~WageChangeAllowed(currentWage, proposedWage, count)
              /\ ValidatorWageLocked(currentWage, proposedWage, count > 0, acceptedCount)
                    <=> InlineWageLocked(currentWage, proposedWage, count > 0)
    /\ (SaveEditRan /\ last.result \notin {"completed", "invalid_wage"})
          => (last.result = "wage_locked"
                <=> ~WageChangeAllowed(last.read.wage, ParseNumber(last.editData.wage),
                                       Len(getJobApplications(applications, last.job))))

\* C12 witness: with no application stored for the job, a save that
\* changes the wage was accepted.
C12_Witness ==
    /\ SaveEditRan /\ last.result = "saved"
    /\ ParseNumber(last.editData.wage) # last.read.wage
    /\ ~hasApplications(storeApps, last.job)

\* The outcomes of handleSaveEdit that refuse the save with an alert.
SaveRefusals == {"completed", "invalid_wage", "wage_locked", "invalid_workers",
                 "below_accepted", "shrink_with_applications"}

\* The step is a handleSaveEdit on a job that is stored.
SaveEditStep ==
    /\ last'.op = "handleSaveEdit" /\ "read" \in DOMAIN last'
    /\ HasJob(storeJobs, last'.job)

\* C13: a handleSaveEdit whose requiredWorkers is below the number of
\* workers accepted for the job is refused with a reason and leaves the
\* stored jobs as they are.
C13_BelowAcceptedRefused ==
    [][(/\ SaveEditStep
        /\ ParseNumber(last'.editData.requiredWorkers)
               < AcceptedCount(FindJob(storeJobs, last'.job)))
          => /\ last'.result \in SaveRefusals
             /\ storeJobs' = storeJobs]_vars

\* C14: a handleSaveEdit whose requiredWorkers is below the job's stored
\* requiredWorkers is refused and leaves the stored jobs as they are when an
\* application of the job is stored; when none is stored and the new value
\* is at least 1, neither capacity rule refuses it.
C14_ShrinkWithApplicationsRefused ==
    [][(/\ SaveEditStep
        /\ ParseNumber(last'.editData.requiredWorkers)
               < FindJob(storeJobs, last'.job).requiredWorkers)
          => IF hasApplications(storeApps, last'.job)
             THEN /\ last'.result \in SaveRefusals
                  /\ storeJobs' = storeJobs
             ELSE ParseNumber(last'.editData.requiredWorkers) >= 1
                      => last'.result \notin {"below_accepted",
                                              "shrink_with_applications"}]_vars

\* C15: a handleSaveEdit whose requiredWorkers is below the accepted count
\* and, with an application stored, below the stored requiredWorkers, is
\* refused by the shrink-with-applications rule.
C15_ShrinkRuleFirst ==
    [][(/\ SaveEditStep
        /\ last'.result \notin {"completed", "invalid_wage", "wage_locked",
                                 "invalid_workers"}
        /\ ParseNumber(last'.editData.requiredWorkers)
               < AcceptedCount(FindJob(storeJobs, last'.job))
        /\ hasApplications(storeApps, last'.job)
        /\ ParseNumber(last'.editData.requiredWorkers)
               < FindJob(storeJobs, last'.job).requiredWorkers)
          => /\ last'.result = "shrink_with_applications"
             /\ SaveEditCheck(last'.read, storeApps, last'.editData.wage,
                              last'.editData.requiredWorkers)
                    = "shrink_with_applications"]_vars

\* ------------------------------------- properties of the applications
\* C16 (cooldown): for a worker whose only application for a stored job is
\* rejected with rejectedAt = T, apply is not admitted before T + 24 hours,
\* and from T + 24 hours on it is admitted when the job is open and has a
\* position left.
C16_Cooldown ==
    \A jobId \in JobIdsOf(storeJobs), w \in Workers :
        LET mine == PairApplications(storeApps, jobId, w)
            job == FindJob(storeJobs, jobId)
        IN  (Len(mine) = 1 /\ mine[1].status = "rejected")
              => /\ clock < mine[1].rejectedAt + 24 * HourMs
                     => ~ApplyAdmitted(storeJobs, storeApps, w, jobId, clock)
                 /\ (/\ clock >= mine[1].rejectedAt + 24 * HourMs
                     /\ job.status = "open"
                     /\ AcceptedCount(job) < job.requiredWorkers)
                     => ApplyAdmitted(storeJobs, storeApps, w, jobId, clock)

\* C16 witness: a worker rejected at a time T > 0 has applied again, 24
\* hours or more after T.
C16_Witness ==
    /\ last.op = "apply"
    /\ \E a \in Elems(storeApps), b \in Elems(storeApps) :
          /\ a.jobId = b.jobId /\ a.workerId = b.workerId /\ a.id < b.id
          /\ a.status = "rejected" /\ a.rejectedAt > 0
          /\ clock >= a.rejectedAt + 24 * HourMs
          /\ b.status = "pending"

\* C17: an apply adds one row, pending and without rejectedAt, for the
\* job; every row stored before is unchanged, and the rows of the pair are
\* one more than before.
C17_ReapplyAddsRow ==
    [][last'.op = "apply"
          => /\ Len(storeApps') = Len(storeApps) + 1
             /\ SubSeq(storeApps', 1, Len(storeApps)) = storeApps
             /\ LET new == storeApps'[Len(storeApps')] IN
                  /\ new.status = "pending"
                  /\ new.jobId = last'.job
                  /\ "rejectedAt" \notin DOMAIN new
                  /\ \A a \in Elems(storeApps) : a.id # new.id
                  /\ Len(PairApplications(storeApps', new.jobId, new.workerId))
                        = Len(PairApplications(storeApps, new.jobId, new.workerId)) + 1
       ]_vars

\* C17 witness: after a reapply the first row of the pair is still the
\* rejected one and the second row is the pending one.
C17_Witness ==
    /\ last.op = "apply"
    /\ Len(storeApps) = 2
    /\ storeApps[1].status = "rejected" /\ "rejectedAt" \in DOMAIN storeApps[1]
    /\ storeApps[2].status = "pending"
    /\ storeApps[1].jobId = storeApps[2].jobId
    /\ storeApps[1].workerId = storeApps[2].workerId

C20_AbsentJobReported ==
    [][(/\ last'.op \in {"handleSaveEdit", "confirmDeleteJob"}
        /\ ~HasJob(storeJobs, last'.job))
          => last'.result = "not_found"]_vars

\* --------------------------------------------- properties of job creation
\* The formData passes every validation of the post-job form.
FormDataValid(user, formData) ==
    /\ user.userType = "farmer"
    /\ ~formData.blankField
    /\ ParseNumber(formData.wage) > 0 /\ ParseNumber(formData.wage) <= 100000
    /\ ParseNumber(formData.duration) > 0
    /\ ParseNumber(formData.requiredWorkers) > 0

\* C21: every stored job that handleSubmit saved is open with no accepted
\* worker, wage > 0 and requiredWorkers >= 1 and belongs to the farmer who
\* submitted it; a submission is saved exactly when no validation fails,
\* and one that fails leaves the stored jobs as they are.
C21_SubmitSavesValidJob ==
    /\ [](\A job \in Elems(storeJobs) :
            /\ job.status = "open" /\ job.acceptedWorkerIds = {}
            /\ job.wage > 0 /\ job.requiredWorkers >= 1
            /\ \E u \in PostUsers : u.userType = "farmer" /\ u.id = job.farmerId)
    /\ [][last'.op = "handleSubmit"
            => /\ last'.result = "saved" <=> FormDataValid(last'.user, last'.formData)
               /\ IF last'.result = "saved"
                  THEN /\ HasJob(storeJobs', last'.job)
                       /\ LET job == FindJob(storeJobs', last'.job) IN
                            /\ job.farmerId = last'.user.id
                            /\ job.wage = ParseNumber(last'.formData.wage)
                            /\ job.requiredWorkers
                                  = ParseNumber(last'.formData.requiredWorkers)
                            /\ job.status = "open" /\ job.acceptedWorkerIds = {}
                  ELSE storeJobs' = storeJobs]_vars

\* C21 witness: both farmers have a job stored and a submission with an
\* invalid number of workers has just been refused.
C21_Witness ==
    /\ last.op = "handleSubmit" /\ last.result = "invalid_workers"
    /\ \E a \in Elems(storeJobs), b \in Elems(storeJobs) :
          a.farmerId = "f1" /\ b.farmerId = "f2"

\* C22: a saved submission adds one job to the store, keeps every job
\* stored before, and leaves no two stored jobs with the same id.
C22_JobIdsUnique ==
    [][(last'.op = "handleSubmit" /\ last'.result = "saved")
          => /\ Len(storeJobs') = Len(storeJobs) + 1
             /\ \A job \in Elems(storeJobs) : job \in Elems(storeJobs')
             /\ \A i \in 1..Len(storeJobs'), k \in 1..Len(storeJobs') :
                   storeJobs'[i].id = storeJobs'[k].id => i = k]_vars

\* C23: a saved handleSaveEdit leaves every application, every other
\* stored job, and the id, farmerId and acceptedWorkerIds of the edited job
\* as they were, and stores the wage and requiredWorkers of the form.
C23_EditFrame ==
    [][(SaveEditStep /\ last'.result = "saved")
          => /\ storeApps' = storeApps
             /\ Len(storeJobs') = Len(storeJobs)
             /\ \A i \in 1..Len(storeJobs) :
                   IF storeJobs[i].id # last'.job
                   THEN storeJobs'[i] = storeJobs[i]
                   ELSE /\ storeJobs'[i].id = storeJobs[i].id
                        /\ storeJobs'[i].farmerId = storeJobs[i].farmerId
                        /\ storeJobs'[i].acceptedWorkerIds
                               = storeJobs[i].acceptedWorkerIds
                        /\ storeJobs'[i].wage = ParseNumber(last'.editData.wage)
                        /\ storeJobs'[i].requiredWorkers
                               = ParseNumber(last'.editData.requiredWorkers)
                        /\ DOMAIN storeJobs'[i] = DOMAIN storeJobs[i]]_vars

\* C23 witness: an edit that changed wage and requiredWorkers was saved
\* while the edited job has an accepted worker and the other job has an
\* application.
C23_Witness ==
    /\ SaveEditRan /\ last.result = "saved"
    /\ ParseNumber(last.editData.wage) # last.read.wage
    /\ ParseNumber(last.editData.requiredWorkers) # last.read.requiredWorkers
    /\ HasJob(storeJobs, last.job)
    /\ AcceptedCount(FindJob(storeJobs, last.job)) >= 1
    /\ \E a \in Elems(storeApps) : a.jobId # last.job

\* ============================================ MyJobsPage of a worker
\* The worker signed in on the page.  In the specifications of this part the
\* page state (jobs, applications) is this worker's; of the owner's session
\* only a deletion in flight is kept (showDeleteConfirm).
WorkerUser == "w1"

\* loadData, worker branch: the applications of the signed-in user.
UserApplications(apps, userId) ==
    LET K(a) == a.workerId = userId IN SelectSeq(apps, K)

\* loadData, worker branch: the jobs the user has an application for.
AppliedJobs(js, userApplications) ==
    LET K(j) == \E a \in Elems(userApplications) : a.jobId = j.id
    IN  SelectSeq(js, K)

\* loadData, worker branch: the user's applications whose job exists.
ValidApplications(userApplications, js) ==
    LET K(a) == \E j \in Elems(js) : j.id = a.jobId
    IN  SelectSeq(userApplications, K)

OtherUsersApplications(apps, userId) ==
    LET K(a) == a.workerId # userId IN SelectSeq(apps, K)

\* The cleanup of a loadData is still to write: the page holds the user's
\* applications as read, some of them for jobs that were not found.  (An
\* application of the user has its job among all jobs read exactly if it
\* has it among the applied jobs, which is what the page keeps.)
CleanupPending ==
    Len(ValidApplications(applications, jobs)) # Len(applications)

\* loadData as the worker, up to the second read of the applications: the
\* recompute pass, the user's applications and applied jobs are set.
LoadDataWorker ==
    LET updatedJobs == UpdateAllJobStatuses(storeJobs)
        userApplications == UserApplications(storeApps, WorkerUser)
        validApplications == ValidApplications(userApplications, updatedJobs)
    IN  /\ ~CleanupPending
        /\ storeJobs' = updatedJobs
        /\ applications' = userApplications
        /\ jobs' = AppliedJobs(updatedJobs, userApplications)
        /\ last' = Did("loadData", Null,
                       IF Len(validApplications) # Len(userApplications)
                       THEN "cleaning" ELSE "ok")
        /\ UNCHANGED <<storeApps, editingJob, showDeleteConfirm,
                       nextJobId, nextAppId, clock>>

\* loadData as the worker, the cleanup: the applications are read again,
\* the other users' rows of this read and the user's valid rows of the
\* first read are written.
LoadDataCleanup ==
    LET validApplications == ValidApplications(applications, jobs)
        otherUsersApps == OtherUsersApplications(storeApps, WorkerUser)
    IN  /\ CleanupPending
        /\ storeApps' = otherUsersApps \o validApplications
        /\ applications' = validApplications
        /\ last' = Did("loadData", Null, "cleaned")
        /\ UNCHANGED <<storeJobs, jobs, editingJob, showDeleteConfirm,
                       nextJobId, nextAppId, clock>>

\* find(app => app.jobId === jobId): the first row of the list, if any.
FirstApplication(apps, jobId) == getJobApplications(apps, jobId)[1]

getApplicationStatus(apps, jobId) ==
    IF hasApplications(apps, jobId)
    THEN FirstApplication(apps, jobId).status
    ELSE "pending"

\* The first row for the job is a rejection that carries its time.
RejectionFound(apps, jobId) ==
    /\ hasApplications(apps, jobId)
    /\ FirstApplication(apps, jobId).status = "rejected"
    /\ "rejectedAt" \in DOMAIN FirstApplication(apps, jobId)

canReapply(apps, jobId, now) ==
    IF ~RejectionFound(apps, jobId) THEN FALSE
    ELSE now - FirstApplication(apps, jobId).rejectedAt >= CooldownHours * HourMs

\* Math.floor and Math.ceil of the quotient num / den, den > 0.
Floor(num, den) == num \div den

Ceil(num, den) == -((-num) \div den)

\* The text `Can reapply in ${hoursLeft} hours`; '' is the empty tuple.
NoText == <<>>

CountdownText(hoursLeft) == <<"Can reapply in", hoursLeft, "hours">>

\* Mutant: the hours left are rounded down.
getTimeUntilReapply_Floor(apps, jobId, now) ==
    IF ~RejectionFound(apps, jobId) THEN NoText
    ELSE LET msPassed == now - FirstApplication(apps, jobId).rejectedAt
             hoursLeft == Floor(CooldownHours * HourMs - msPassed, HourMs)
         IN  IF hoursLeft <= 0 THEN NoText ELSE CountdownText(hoursLeft)

getTimeUntilReapply(apps, jobId, now) ==
    IF ~RejectionFound(apps, jobId) THEN NoText
    ELSE LET msPassed == now - FirstApplication(apps, jobId).rejectedAt
             hoursLeft == Ceil(CooldownHours * HourMs - msPassed, HourMs)
         IN  IF hoursLeft <= 0 THEN NoText ELSE CountdownText(hoursLeft)

\* The worker's block of a job card: the status shown and the banner under it.
WaitBanner(apps, jobId, now) ==
    getApplicationStatus(apps, jobId) = "rejected" /\ ~canReapply(apps, jobId, now)

ReapplyBanner(apps, jobId, now) ==
    getApplicationStatus(apps, jobId) = "rejected" /\ canReapply(apps, jobId, now)

\* The page of a worker rejected at one of RejectedAtSamples, opened after
\* one of ElapsedSamples: whole hours around the cooldown, one millisecond
\* to either side of each, and half an hour past each.
RejectedAtSamples == {0, 1, HourMs}

ElapsedSamples ==
    {h * HourMs + d : h \in {0, 1, 23, 24, 25}, d \in {-1, 0, 1, HourMs \div 2}}
        \cap Nat

InitReapply ==
    /\ storeJobs \in {<<NewJob(1, Farmer, "500", n)>> : n \in {"1", "2"}}
    /\ \E T \in RejectedAtSamples, e \in ElapsedSamples :
          /\ storeApps = <<RejectedApplication(NewApplication(1, 1, WorkerUser), T)>>
          /\ clock = T + e
    /\ jobs = <<>>
    /\ applications = <<>>
    /\ editingJob = Null
    /\ showDeleteConfirm = Null
    /\ nextJobId = 1
    /\ nextAppId = 1
    /\ last = Did("init", Null, "ok")

NextReapply == LoadDataWorker

SpecReapply == InitReapply /\ [][NextReapply]_vars

\* ---------------------------------------- properties of the worker's page
\* C24 (cooldown display): for a job whose application on the page is
\* rejected, with e = now - rejectedAt: canReapply is true exactly if
\* e >= 24 hours; getTimeUntilReapply gives a countdown exactly if
\* e < 24 hours, and its hours are the least whole number of hours that
\* covers 24 hours - e, a value in 1..24 when 0 <= e; and exactly one of
\* the two holds.
C24_CooldownDisplay ==
    \A job \in Elems(jobs) :
        RejectionFound(applications, job.id) =>
            LET e == clock - FirstApplication(applications, job.id).rejectedAt
                left == 24 * HourMs - e
                text == getTimeUntilReapply(applications, job.id, clock)
            IN  /\ canReapply(applications, job.id, clock) <=> (e >= 24 * HourMs)
                /\ (text # NoText) <=> (e < 24 * HourMs)
                /\ (e < 24 * HourMs) =>
                       \E h \in 1..24 :
                           /\ text = CountdownText(h)
                           /\ h * HourMs >= left
                           /\ (h - 1) * HourMs < left
                /\ canReapply(applications, job.id, clock) # (text # NoText)

\* C24 witness: the page shows a rejection 23 hours and a half old, with
\* one hour left on the countdown.
C24_Witness ==
    /\ last.op = "loadData"
    /\ \E job \in Elems(jobs) :
          /\ RejectionFound(applications, job.id)
          /\ clock - FirstApplication(applications, job.id).rejectedAt
                 = 23 * HourMs + HourMs \div 2
          /\ getTimeUntilReapply(applications, job.id, clock) = CountdownText(1)
          /\ WaitBanner(applications, job.id, clock)

\* ------------------------------------------------ refused saves
\* C25: a handleSaveEdit that ends in a refusal (completed job, invalid
\* wage, locked wage, invalid worker count, count below the accepted, count
\* lowered with applications) writes nothing: the stored jobs and the stored
\* applications are the same before and after it, and the page's jobs are
\* not loaded again.
C25_RefusedSaveWritesNothing ==
    [][(/\ last'.op = "handleSaveEdit"
        /\ last'.result \in SaveRefusals)
          => /\ storeJobs' = storeJobs
             /\ storeApps' = storeApps
             /\ jobs' = jobs
             /\ applications' = applications]_vars

\* C25 witness: a save was refused for its form, and the job it was about is
\* stored as the page read it.
C25_Witness ==
    /\ SaveEditRan
    /\ last.result \in {"invalid_wage", "invalid_workers"}
    /\ HasJob(storeJobs, last.job)
    /\ FindJob(storeJobs, last.job).wage = last.read.wage
    /\ FindJob(storeJobs, last.job).requiredWorkers = last.read.requiredWorkers
    /\ editingJob = last.job

\* ------------------------------------- the owner's deletion, write by write
\* The owner's session, seen from the store: it mounts, handleDeleteJob
\* opens the confirmation of a job that is not completed, and
\* confirmDeleteJob writes the jobs without it.
OwnerDeleteWriteJobs(jobId) ==
    LET updatedJobs == UpdateAllJobStatuses(storeJobs) IN
    /\ showDeleteConfirm = Null
    /\ HasJob(updatedJobs, jobId)
    /\ FindJob(updatedJobs, jobId).status # "completed"
    /\ storeJobs' = WithoutJob(updatedJobs, jobId)
    /\ showDeleteConfirm' = jobId
    /\ last' = Did("confirmDeleteJob", jobId, "jobs_written")
    /\ UNCHANGED <<storeApps, jobs, applications, editingJob,
                   nextJobId, nextAppId, clock>>

\* The rest of that confirmDeleteJob: the applications are read, written
\* without those of the job, the confirmation closes and loadData runs.
OwnerDeleteWriteApplications ==
    /\ showDeleteConfirm # Null
    /\ storeApps' = WithoutJobApplications(storeApps, showDeleteConfirm)
    /\ storeJobs' = UpdateAllJobStatuses(storeJobs)
    /\ showDeleteConfirm' = Null
    /\ last' = Did("confirmDeleteJob", showDeleteConfirm, "ok")
    /\ UNCHANGED <<jobs, applications, editingJob, nextJobId, nextAppId, clock>>

\* The worker's page next to the other sessions: StoredJobs jobs are posted;
\* workers apply, the owner accepts, rejects and deletes, time passes, and
\* the worker's page loads.
NextWorker ==
    \/ LoadDataWorker
    \/ LoadDataCleanup
    \/ \E jobId \in 1..nextJobId : OwnerDeleteWriteJobs(jobId)
    \/ OwnerDeleteWriteApplications
    \/ \E w \in Workers, jobId \in 1..nextJobId : Apply(w, jobId)
    \/ \E appId \in 1..nextAppId : Accept(appId)
    \/ \E appId \in 1..nextAppId : Reject(appId)
    \/ Tick

SpecWorker == InitDelete /\ [][NextWorker]_vars

\* C26 (referential integrity): in every state, also between the two
\* writes of confirmDeleteJob and while the worker's cleanup is to be
\* written, every stored application is for a job that is stored.
C26_ApplicationsHaveJobs ==
    \A a \in Elems(storeApps) : HasJob(storeJobs, a.jobId)

\* The workers of the accepted applications stored for the job.
AcceptedApplicants(apps, jobId) ==
    {a.workerId : a \in {b \in Elems(apps) : b.jobId = jobId /\ b.status = "accepted"}}

\* The store's half of C27: acceptedWorkerIds of every stored job is the
\* set of workers of its accepted applications.
StoredAcceptedIdsMatch ==
    \A job \in Elems(storeJobs) :
        job.acceptedWorkerIds = AcceptedApplicants(storeApps, job.id)

\* C27: in every state the acceptedWorkerIds of every stored job is the set
\* of workers of the job's accepted applications, and so the accepted count
\* the capacity check of the page takes from the applications is the number
\* of acceptedWorkerIds of the job.
C27_AcceptedCountsAgree ==
    /\ StoredAcceptedIdsMatch
    /\ \A job \in Elems(jobs) :
          getAcceptedApplicationsCount(applications, job.id) = AcceptedCount(job)

\* The application made last among those the page holds for the job.
LatestApplication(apps, jobId) ==
    CHOOSE a \in Elems(getJobApplications(apps, jobId)) :
        \A b \in Elems(getJobApplications(apps, jobId)) : b.id <= a.id

\* C28: for every job on the worker's page, the status shown, the wait
\* banner and the reapply banner (canReapply) are those of the application
\* the worker made last for the job.
C28_LatestApplicationShown ==
    \A job \in Elems(jobs) :
        hasApplications(applications, job.id) =>
            LET latest == LatestApplication(applications, job.id)
                over == /\ latest.status = "rejected"
                        /\ CooldownElapsed(latest, clock)
            IN  /\ getApplicationStatus(applications, job.id) = latest.status
                /\ canReapply(applications, job.id, clock) = over
                /\ WaitBanner(applications, job.id, clock)
                       = (latest.status = "rejected" /\ ~over)
                /\ ReapplyBanner(applications, job.id, clock) = over

\* ================================================= JobCard, the apply button
getApplyButtonText(applicationStatus, job) ==
    IF applicationStatus = "pending" THEN "Application Pending"
    ELSE IF applicationStatus = "accepted" THEN "Application Accepted"
    ELSE IF applicationStatus = "rejected" THEN "Application Rejected"
    ELSE IF job.status = "completed" THEN "Job Completed"
    ELSE IF job.status = "filled" THEN "All Positions Filled"
    ELSE IF job.status = "in-progress" THEN "Job In Progress"
    ELSE IF Cardinality(job.acceptedWorkerIds) >= job.requiredWorkers
         THEN "All Positions Filled"
    ELSE "Apply Now"

\* The values of the applicationStatus prop; "" is null, the default.
ApplicationStatuses == {"", "pending", "accepted", "rejected"}

\* The card of a stored job is rendered for a worker with the given props:
\* what is left to be seen is the button's label and whether it is disabled.
RenderJobCard(jobId, canApply, applicationStatus) ==
    /\ HasJob(storeJobs, jobId)
    /\ LET job == FindJob(storeJobs, jobId) IN
         last' = [op |-> "JobCard", job |-> jobId,
                  result |-> getApplyButtonText(applicationStatus, job),
                  disabled |-> ~canApplyToJob(canApply, applicationStatus, job),
                  canApply |-> canApply,
                  applicationStatus |-> applicationStatus]
    /\ UNCHANGED <<store, page, nextJobId, nextAppId, clock>>

\* The card on any job record and any props.
NextCard ==
    \E jobId \in 1..nextJobId, canApply \in BOOLEAN,
       applicationStatus \in ApplicationStatuses :
        RenderJobCard(jobId, canApply, applicationStatus)

SpecCard == InitRecompute /\ [][NextCard]_vars

\* C29: whenever a card is rendered with its apply button enabled, the
\* button reads 'Apply Now' and the job has fewer accepted workers than
\* requiredWorkers, whatever the job and the props.
C29_EnabledButtonReadsApplyNow ==
    (last.op = "JobCard" /\ ~last.disabled)
        => /\ last.result = "Apply Now"
           /\ AcceptedCount(FindJob(storeJobs, last.job))
                  < FindJob(storeJobs, last.job).requiredWorkers

\* --------------------------------------------- the worker's cleanup
\* C30: the write of the worker's cleanup keeps every stored application of
\* another worker and every stored application of the signed-in worker
\* whose job is stored, whatever was written to the store since the page
\* read the applications.
C30_CleanupKeepsTheRest ==
    [][(last'.op = "loadData" /\ last'.result = "cleaned")
          => \A a \in Elems(storeApps) :
                 (a.workerId # WorkerUser \/ HasJob(storeJobs, a.jobId))
                     => a \in Elems(storeApps')]_vars

====
